---------------------------- MODULE Spec2Model ----------------------------
(***************************************************************************)
(* Model of the plant shop REST backend (src/index.js).                    *)
(*                                                                         *)
(* src/index.js holds two revisions of the server one after the other      *)
(* (lines 1-243 and lines 244-573).  The variable ver says which revision  *)
(* is deployed; it is chosen once and never changes.                       *)
(*                                                                         *)
(* The relational store is the state: the tables users, plants, favorites  *)
(* and cart, each a set of rows with an AUTO_INCREMENT id.  Every handler  *)
(* is an async function: it runs synchronously up to an await on a query,  *)
(* the store executes the query (one atomic statement), and the handler    *)
(* goes on.  Each request is one entry of reqs, and its pc says which      *)
(* query it is waiting for.  Several requests may be in flight, and their  *)
(* statements interleave freely.  Storage failures (the 500 path of        *)
(* sendSQLError) are not modelled.  The GET routes change nothing and are  *)
(* left out, as is POST /api/plants: plants keeps the rows the store       *)
(* starts with.                                                            *)
(***************************************************************************)
EXTENDS Integers, FiniteSets, Sequences, TLC

\* Number of requests a run serves.
MaxReqs == 2

Reqs == 1..MaxReqs

\* ---- input values (0 and "" stand for a missing or falsy field) ----
UserIds == {1, 2}
PlantIds == {1, 2}
Quantities == {-1, 1, 2}
CartIds == {1, 2}

VARIABLES
    ver,          \* the revision of the handlers that is deployed: 1 or 2
    autoinc,      \* the AUTO_INCREMENT counter of each table
    users,        \* table users: rows [id, full_name, email, phone, password]
    plants,       \* table plants: rows [id, name, price, image, category]
    favorites,    \* table favorites: rows [id, user_id, plant_id]
    cart,         \* table cart: rows [id, user_id, plant_id, quantity]
    reqs          \* the requests: input, position, locals and response

vars == <<ver, autoinc, users, plants, favorites, cart, reqs>>

tables == <<users, plants, favorites, cart>>

\* ---- helpers of the store ----

\* JavaScript's !v: a number field is falsy when 0, a string field when "".
\* Both also stand for a field that is missing from the body (undefined).
Falsy(v) == v = 0
Blank(s) == s = ""

\* An INSERT takes the table's next AUTO_INCREMENT id; ids are never reused.
NextId(t) == autoinc[t] + 1

\* ---- requests ----

NoInput ==
    [full_name |-> "", email |-> "", phone |-> "", password |-> "",
     confirmPassword |-> "", user_id |-> 0, plant_id |-> 0, quantity |-> 0,
     cartId |-> 0]

\* A request: its handler (op), its body or parameters (in), the query it
\* waits for (pc), the row its SELECT returned (found, rowId, rowQty,
\* rowPassword) and its response (status, message).  Three fields record what
\* the code does not: solo (every earlier request had been answered when this
\* one arrived), present (signup: the email was in users on arrival) and
\* affected (the rows its DELETE removed).
IdleReq ==
    [op |-> "none", in |-> NoInput, pc |-> "idle", found |-> FALSE,
     rowId |-> 0, rowQty |-> 0, rowPassword |-> <<>>, status |-> 0,
     message |-> "", solo |-> FALSE, present |-> FALSE, affected |-> 0]

\* Every request received before i has been answered.
AllEarlierDone(i) == \A j \in Reqs : j < i => reqs[j].pc = "done"

\* Request i can be received: requests are numbered in the order they arrive.
CanReceive(i) ==
    /\ reqs[i].pc = "idle"
    /\ \A j \in Reqs : j < i => reqs[j].pc # "idle"

Received(i, op, in) ==
    [IdleReq EXCEPT !.op = op, !.in = in, !.solo = AllEarlierDone(i)]

Respond(r, status, message) ==
    [r EXCEPT !.pc = "done", !.status = status, !.message = message]


\* --------------------------------------------------------------- users ----

\* bcrypt.hash(password, 10) and bcrypt.compare(password, hash): the hash is
\* one-way and is not the password; the salt is left out.
Hash(password) == <<"bcrypt", password>>
Compare(password, hash) == hash = Hash(password)

SignupInputs ==
    {[NoInput EXCEPT !.full_name = "Ann", !.email = "a@x", !.password = "pw1",
                     !.confirmPassword = "pw1"],
     [NoInput EXCEPT !.full_name = "Bob", !.email = "a@x", !.password = "pw2",
                     !.confirmPassword = "pw2", !.phone = "555"],
     [NoInput EXCEPT !.full_name = "Bob", !.email = "b@x", !.password = "pw2",
                     !.confirmPassword = "pw2"],
     [NoInput EXCEPT !.full_name = "Bob", !.email = "b@x", !.password = "pw2",
                     !.confirmPassword = "pw1"],
     [NoInput EXCEPT !.email = "b@x", !.password = "pw2", !.confirmPassword = "pw2"]}

\* if (!full_name || !email || !password || !confirmPassword) return res.status(400)
SignupMissing(in) ==
    Blank(in.full_name) \/ Blank(in.email) \/ Blank(in.password)
        \/ Blank(in.confirmPassword)

\* if (password !== confirmPassword) return res.status(400)
SignupMismatch(in) == in.password # in.confirmPassword

\* A lookup on the wrong column.
UsersByName(us, email) == {u \in us : u.full_name = email}

\* SELECT ... FROM users WHERE email = ?
UsersByEmail(us, email) == {u \in us : u.email = email}

\* INSERT INTO users (full_name, email, phone, password) VALUES (?, ?, ?, ?)
InsertUserRow(us, id, in) ==
    us \cup {[id |-> id, full_name |-> in.full_name, email |-> in.email,
              phone |-> in.phone, password |-> Hash(in.password)]}

\* POST /api/signup, up to the first await.
SignupReceive(i, in) ==
    /\ CanReceive(i)
    /\ LET r == [Received(i, "signup", in) EXCEPT
                    !.present = \E u \in users : u.email = in.email]
       IN reqs' = [reqs EXCEPT ![i] =
              IF SignupMissing(in)
                 THEN Respond(r, 400, "Please fill all required fields")
              ELSE IF SignupMismatch(in)
                 THEN Respond(r, 400, "Passwords do not match")
              ELSE [r EXCEPT !.pc = "select"]]
    /\ UNCHANGED <<ver, autoinc, tables>>

SignupSelect(i) ==
    /\ reqs[i].op = "signup" /\ reqs[i].pc = "select"
    /\ reqs' = [reqs EXCEPT ![i] =
           IF UsersByEmail(users, reqs[i].in.email) # {}
              THEN Respond([reqs[i] EXCEPT !.found = TRUE], 400,
                           "Email already registered")
              ELSE [reqs[i] EXCEPT !.pc = "hash"]]
    /\ UNCHANGED <<ver, autoinc, tables>>

\* await bcrypt.hash(password, 10)
SignupHash(i) ==
    /\ reqs[i].op = "signup" /\ reqs[i].pc = "hash"
    /\ reqs' = [reqs EXCEPT ![i].pc = "insert"]
    /\ UNCHANGED <<ver, autoinc, tables>>

SignupInsert(i) ==
    /\ reqs[i].op = "signup" /\ reqs[i].pc = "insert"
    /\ users' = InsertUserRow(users, NextId("users"), reqs[i].in)
    /\ autoinc' = [autoinc EXCEPT !["users"] = NextId("users")]
    /\ reqs' = [reqs EXCEPT ![i] = Respond(reqs[i], 201, "User signup successful")]
    /\ UNCHANGED <<ver, plants, favorites, cart>>

LoginInputs ==
    {[NoInput EXCEPT !.email = e, !.password = p] :
        e \in {"a@x", "b@x"}, p \in {"pw1", "pw2"}}
    \cup {[NoInput EXCEPT !.email = "a@x"]}

MsgLoginMissing(v) ==
    IF v = 1 THEN "Please provide email and password" ELSE "Email and password required"

\* if (users.length === 0) return res.status(400).json({ message: ... })
MsgLoginUnknown(v) ==
    IF v = 1 THEN "Email or password is incorrect" ELSE "Invalid email or password"

\* A message of its own for the wrong password.
MsgLoginWrongPassword(v) == "Password is incorrect"

\* if (!match) return res.status(400).json({ message: ... })
MsgLoginMismatch(v) ==
    IF v = 1 THEN "Email or password is incorrect" ELSE "Invalid email or password"

\* POST /api/login, up to the first await.
LoginReceive(i, in) ==
    /\ CanReceive(i)
    /\ reqs' = [reqs EXCEPT ![i] =
           IF Blank(in.email) \/ Blank(in.password)
              THEN Respond(Received(i, "login", in), 400, MsgLoginMissing(ver))
              ELSE [Received(i, "login", in) EXCEPT !.pc = "select"]]
    /\ UNCHANGED <<ver, autoinc, tables>>

\* The lookup; users[0] is any of the rows found (no ORDER BY).
LoginSelect(i) ==
    /\ reqs[i].op = "login" /\ reqs[i].pc = "select"
    /\ LET found == UsersByEmail(users, reqs[i].in.email)
       IN IF found = {}
             THEN reqs' = [reqs EXCEPT ![i] = Respond(reqs[i], 400, MsgLoginUnknown(ver))]
             ELSE \E user \in found :
                    reqs' = [reqs EXCEPT ![i].pc = "compare", ![i].found = TRUE,
                                         ![i].rowId = user.id,
                                         ![i].rowPassword = user.password]
    /\ UNCHANGED <<ver, autoinc, tables>>

\* await bcrypt.compare(password, user.password), then the response.
LoginCompare(i) ==
    /\ reqs[i].op = "login" /\ reqs[i].pc = "compare"
    /\ reqs' = [reqs EXCEPT ![i] =
           IF ~Compare(reqs[i].in.password, reqs[i].rowPassword)
              THEN Respond(reqs[i], 400, MsgLoginMismatch(ver))
              ELSE Respond(reqs[i], 200, "Login success")]
    /\ UNCHANGED <<ver, autoinc, tables>>

\* ----------------------------------------------------------- favorites ----

FavoriteInputs ==
    {[NoInput EXCEPT !.user_id = u, !.plant_id = p] : u \in UserIds, p \in PlantIds}
    \cup {[NoInput EXCEPT !.plant_id = 1], [NoInput EXCEPT !.user_id = 1]}

\* if (!user_id || !plant_id) return res.status(400)
FavoriteInvalid(in) == Falsy(in.user_id) \/ Falsy(in.plant_id)

\* The existence check with its two parameters bound in the wrong order.
FavoriteRowsSwapped(f, u, p) == {r \in f : r.user_id = p /\ r.plant_id = u}

\* SELECT ... FROM favorites WHERE user_id = ? AND plant_id = ?
FavoriteRowsOf(f, u, p) == {r \in f : r.user_id = u /\ r.plant_id = p}

\* INSERT INTO favorites (user_id, plant_id) VALUES (?, ?)
InsertFavoriteRow(f, id, u, p) == f \cup {[id |-> id, user_id |-> u, plant_id |-> p]}

\* A delete that leaves plant_id out of its WHERE clause.
DeleteFavoritesOfUser(f, u, p) == {r \in f : r.user_id # u}

\* DELETE FROM favorites WHERE user_id = ? AND plant_id = ?
DeleteFavoriteRows(f, u, p) == {r \in f : ~(r.user_id = u /\ r.plant_id = p)}

\* POST /api/favorites, up to the first await.
AddFavoriteReceive(i, in) ==
    /\ CanReceive(i)
    /\ reqs' = [reqs EXCEPT ![i] =
           IF FavoriteInvalid(in)
              THEN Respond(Received(i, "addFavorite", in), 400,
                           "Missing user_id or plant_id")
              ELSE [Received(i, "addFavorite", in) EXCEPT !.pc = "select"]]
    /\ UNCHANGED <<ver, autoinc, tables>>

AddFavoriteSelect(i) ==
    /\ reqs[i].op = "addFavorite" /\ reqs[i].pc = "select"
    /\ reqs' = [reqs EXCEPT ![i] =
           IF FavoriteRowsOf(favorites, reqs[i].in.user_id, reqs[i].in.plant_id) # {}
              THEN Respond([reqs[i] EXCEPT !.found = TRUE], 400, "Already in favorites")
              ELSE [reqs[i] EXCEPT !.pc = "insert"]]
    /\ UNCHANGED <<ver, autoinc, tables>>

AddFavoriteInsert(i) ==
    /\ reqs[i].op = "addFavorite" /\ reqs[i].pc = "insert"
    /\ favorites' = InsertFavoriteRow(favorites, NextId("favorites"),
                                      reqs[i].in.user_id, reqs[i].in.plant_id)
    /\ autoinc' = [autoinc EXCEPT !["favorites"] = NextId("favorites")]
    /\ reqs' = [reqs EXCEPT ![i] = Respond(reqs[i], 200, "Added to favorites")]
    /\ UNCHANGED <<ver, users, plants, cart>>

\* Revision 1 only: if (!user_id || !plant_id) return res.status(400)
RemoveFavoriteInvalid(v, in) == v = 1 /\ FavoriteInvalid(in)

\* DELETE /api/favorites, up to the await.
RemoveFavoriteReceive(i, in) ==
    /\ CanReceive(i)
    /\ reqs' = [reqs EXCEPT ![i] =
           IF RemoveFavoriteInvalid(ver, in)
              THEN Respond(Received(i, "removeFavorite", in), 400,
                           "Missing user_id or plant_id")
              ELSE [Received(i, "removeFavorite", in) EXCEPT !.pc = "delete"]]
    /\ UNCHANGED <<ver, autoinc, tables>>

RemoveFavoriteDelete(i) ==
    /\ reqs[i].op = "removeFavorite" /\ reqs[i].pc = "delete"
    /\ favorites' = DeleteFavoriteRows(favorites, reqs[i].in.user_id, reqs[i].in.plant_id)
    /\ reqs' = [reqs EXCEPT ![i] =
           Respond([reqs[i] EXCEPT !.affected = Cardinality(favorites \ favorites')],
                   200, "Removed from favorites")]
    /\ UNCHANGED <<ver, autoinc, users, plants, cart>>

\* ---------------------------------------------------------------- cart ----

\* Bodies with every field present, and one body for each field missing.
AddCartInputs ==
    {[NoInput EXCEPT !.user_id = u, !.plant_id = p, !.quantity = q] :
        u \in UserIds, p \in PlantIds, q \in Quantities}
    \cup {[NoInput EXCEPT !.plant_id = 1, !.quantity = 1],
          [NoInput EXCEPT !.user_id = 1, !.quantity = 1],
          [NoInput EXCEPT !.user_id = 1, !.plant_id = 1]}

MsgCartMissing(v) == IF v = 1 THEN "Missing required fields" ELSE "Missing cart data"

\* if (!user_id || !plant_id || !quantity) return res.status(400)
AddCartInvalid(in) == Falsy(in.user_id) \/ Falsy(in.plant_id) \/ Falsy(in.quantity)

\* SELECT * FROM cart WHERE user_id = ? AND plant_id = ?
CartRowsOf(c, u, p) == {r \in c : r.user_id = u /\ r.plant_id = p}

\* An update that stores the supplied quantity instead of adding it.
UpdateCartOverwrite(v, c, id, readQty, q) ==
    {IF r.id = id THEN [r EXCEPT !.quantity = q] ELSE r : r \in c}

\* Revision 1: UPDATE cart SET quantity = <existing[0].quantity + quantity> WHERE id = ?
\* Revision 2: UPDATE cart SET quantity = quantity + ? WHERE id = ?
UpdateCartQuantity(v, c, id, readQty, q) ==
    {IF r.id = id
        THEN [r EXCEPT !.quantity = IF v = 1 THEN readQty + q ELSE r.quantity + q]
        ELSE r : r \in c}

\* INSERT INTO cart (user_id, plant_id, quantity) VALUES (?, ?, ?)
InsertCartRow(c, id, u, p, q) ==
    c \cup {[id |-> id, user_id |-> u, plant_id |-> p, quantity |-> q]}

\* POST /api/cart, up to the first await.
AddCartReceive(i, in) ==
    /\ CanReceive(i)
    /\ reqs' = [reqs EXCEPT ![i] =
           IF AddCartInvalid(in)
              THEN Respond(Received(i, "addCart", in), 400, MsgCartMissing(ver))
              ELSE [Received(i, "addCart", in) EXCEPT !.pc = "select"]]
    /\ UNCHANGED <<ver, autoinc, tables>>

\* The existence check; existing[0] is any of the rows found (no ORDER BY).
AddCartSelect(i) ==
    /\ reqs[i].op = "addCart" /\ reqs[i].pc = "select"
    /\ LET existing == CartRowsOf(cart, reqs[i].in.user_id, reqs[i].in.plant_id)
       IN IF existing = {}
             THEN reqs' = [reqs EXCEPT ![i].pc = "insert"]
             ELSE \E row \in existing :
                    reqs' = [reqs EXCEPT ![i].pc = "update", ![i].found = TRUE,
                                         ![i].rowId = row.id, ![i].rowQty = row.quantity]
    /\ UNCHANGED <<ver, autoinc, tables>>

AddCartUpdate(i) ==
    /\ reqs[i].op = "addCart" /\ reqs[i].pc = "update"
    /\ cart' = UpdateCartQuantity(ver, cart, reqs[i].rowId, reqs[i].rowQty,
                                  reqs[i].in.quantity)
    /\ reqs' = [reqs EXCEPT ![i] = Respond(reqs[i], 200, "Cart updated")]
    /\ UNCHANGED <<ver, autoinc, users, plants, favorites>>

AddCartInsert(i) ==
    /\ reqs[i].op = "addCart" /\ reqs[i].pc = "insert"
    /\ cart' = InsertCartRow(cart, NextId("cart"), reqs[i].in.user_id,
                             reqs[i].in.plant_id, reqs[i].in.quantity)
    /\ autoinc' = [autoinc EXCEPT !["cart"] = NextId("cart")]
    /\ reqs' = [reqs EXCEPT ![i] = Respond(reqs[i], 200, "Added to cart")]
    /\ UNCHANGED <<ver, users, plants, favorites>>

RemoveCartInputs == {[NoInput EXCEPT !.cartId = c] : c \in CartIds}

\* DELETE FROM cart WHERE id = ?
DeleteCartRow(c, id) == {r \in c : r.id # id}

\* DELETE /api/cart/:cartId, up to the await: no validation, no ownership check.
RemoveCartReceive(i, in) ==
    /\ CanReceive(i)
    /\ reqs' = [reqs EXCEPT ![i] = [Received(i, "removeCart", in) EXCEPT !.pc = "delete"]]
    /\ UNCHANGED <<ver, autoinc, tables>>

RemoveCartDelete(i) ==
    /\ reqs[i].op = "removeCart" /\ reqs[i].pc = "delete"
    /\ cart' = DeleteCartRow(cart, reqs[i].in.cartId)
    /\ reqs' = [reqs EXCEPT ![i] =
           Respond([reqs[i] EXCEPT !.affected = Cardinality(cart \ cart')],
                   200, "Removed from cart")]
    /\ UNCHANGED <<ver, autoinc, users, plants, favorites>>

CheckoutInputs == {[NoInput EXCEPT !.user_id = u] : u \in UserIds \cup {0}}

MsgCheckout(v) == IF v = 1 THEN "Checkout successful, cart cleared" ELSE "Checkout successful"

\* Revision 1 only: if (!user_id) return res.status(400)
CheckoutInvalid(v, in) == v = 1 /\ Falsy(in.user_id)

\* A delete without its WHERE clause.
DeleteCartAll(c, u) == {}

\* DELETE FROM cart WHERE user_id = ?
DeleteCartOfUser(c, u) == {r \in c : r.user_id # u}

CheckoutReceive(i, in) ==
    /\ CanReceive(i)
    /\ reqs' = [reqs EXCEPT ![i] =
           IF CheckoutInvalid(ver, in)
              THEN Respond(Received(i, "checkout", in), 400, "Missing user_id")
              ELSE [Received(i, "checkout", in) EXCEPT !.pc = "delete"]]
    /\ UNCHANGED <<ver, autoinc, tables>>

CheckoutDelete(i) ==
    /\ reqs[i].op = "checkout" /\ reqs[i].pc = "delete"
    /\ cart' = DeleteCartOfUser(cart, reqs[i].in.user_id)
    /\ reqs' = [reqs EXCEPT ![i] =
           Respond([reqs[i] EXCEPT !.affected = Cardinality(cart \ cart')],
                   200, MsgCheckout(ver))]
    /\ UNCHANGED <<ver, autoinc, users, plants, favorites>>

\* ------------------------------------------------------- specification ----

\* The store is external and outlives the process: the server starts either on
\* an empty store or on one that earlier requests have filled (one signup, one
\* plant, one favorite and one cart row, each the first of its table).
EmptyStore ==
    [users |-> {}, plants |-> {}, favorites |-> {}, cart |-> {},
     autoinc |-> [t \in {"users", "plants", "favorites", "cart"} |-> 0]]

FilledStore ==
    [users |-> InsertUserRow({}, 1, [NoInput EXCEPT !.full_name = "Ann",
                                        !.email = "a@x", !.password = "pw1"]),
     plants |-> {[id |-> 1, name |-> "Fern", price |-> 5, image |-> "fern.png",
                  category |-> "indoor"]},
     favorites |-> InsertFavoriteRow({}, 1, 1, 1),
     cart |-> InsertCartRow({}, 1, 1, 1, 1),
     autoinc |-> [t \in {"users", "plants", "favorites", "cart"} |-> 1]]

Init ==
    /\ ver \in {1, 2}
    /\ \E store \in {EmptyStore, FilledStore} :
         /\ autoinc = store.autoinc
         /\ users = store.users
         /\ plants = store.plants
         /\ favorites = store.favorites
         /\ cart = store.cart
    /\ reqs = [i \in Reqs |-> IdleReq]

NextUsers ==
    \E i \in Reqs :
        \/ \E in \in SignupInputs : SignupReceive(i, in)
        \/ SignupSelect(i)
        \/ SignupHash(i)
        \/ SignupInsert(i)
        \/ \E in \in LoginInputs : LoginReceive(i, in)
        \/ LoginSelect(i)
        \/ LoginCompare(i)

NextFavorites ==
    \E i \in Reqs :
        \/ \E in \in FavoriteInputs : AddFavoriteReceive(i, in)
        \/ AddFavoriteSelect(i)
        \/ AddFavoriteInsert(i)
        \/ \E in \in FavoriteInputs : RemoveFavoriteReceive(i, in)
        \/ RemoveFavoriteDelete(i)

NextCart ==
    \E i \in Reqs :
        \/ \E in \in AddCartInputs : AddCartReceive(i, in)
        \/ AddCartSelect(i)
        \/ AddCartUpdate(i)
        \/ AddCartInsert(i)
        \/ \E in \in RemoveCartInputs : RemoveCartReceive(i, in)
        \/ RemoveCartDelete(i)
        \/ \E in \in CheckoutInputs : CheckoutReceive(i, in)
        \/ CheckoutDelete(i)

\* The account handlers, the favorites handlers and the cart handlers, each
\* group on its own tables.
SpecUsers == Init /\ [][NextUsers]_vars
SpecFavorites == Init /\ [][NextFavorites]_vars
SpecCart == Init /\ [][NextCart]_vars

\* The favorites handlers and the removal of a cart row: the two deletes that
\* name the row they remove.
NextRemove ==
    \/ NextFavorites
    \/ \E i \in Reqs :
          \/ \E in \in RemoveCartInputs : RemoveCartReceive(i, in)
          \/ RemoveCartDelete(i)
SpecRemove == Init /\ [][NextRemove]_vars

\* Every handler.
Next == NextUsers \/ NextFavorites \/ NextCart
Spec == Init /\ [][Next]_vars

\* -------------------------------------------------------------- claims ----

Done(i) == reqs[i].pc = "done"

\* Requests i and i+1 ran one after the other with nothing else acting: each
\* arrived when every earlier request had been answered, both are answered,
\* and no later request has been answered (a handler writes the store only in
\* the statement that ends it).
RanInSequence(i, j) ==
    /\ j = i + 1
    /\ Done(j) /\ Done(i)
    /\ reqs[i].solo /\ reqs[j].solo
    /\ \A k \in Reqs : k > j => ~Done(k)

SamePair(i, j) ==
    /\ reqs[i].in.user_id = reqs[j].in.user_id
    /\ reqs[i].in.plant_id = reqs[j].in.plant_id

\* The case of C1: two POST /api/cart for one pair with positive quantities,
\* in sequence, the first of which found no row for the pair.
TwoAddsInSequence(i, j) ==
    /\ RanInSequence(i, j)
    /\ reqs[i].op = "addCart" /\ reqs[j].op = "addCart"
    /\ SamePair(i, j)
    /\ reqs[i].in.quantity > 0 /\ reqs[j].in.quantity > 0
    /\ reqs[i].status = 200 /\ reqs[j].status = 200
    /\ ~reqs[i].found

\* C1: starting with no cart row for (user_id, plant_id), a POST /api/cart with
\* quantity qty1 followed, after its response, by a POST /api/cart with quantity
\* qty2 for the same pair leaves exactly one cart row for the pair, and its
\* quantity is qty1 + qty2.
C1_SequentialAddsAccumulate ==
    \A i \in Reqs : \A j \in Reqs \cap {i + 1} :
        TwoAddsInSequence(i, j) =>
            \E row \in cart :
                /\ \A r \in cart :
                     (r.user_id = reqs[i].in.user_id /\ r.plant_id = reqs[i].in.plant_id)
                        => r = row
                /\ row.user_id = reqs[i].in.user_id
                /\ row.plant_id = reqs[i].in.plant_id
                /\ row.quantity = reqs[i].in.quantity + reqs[j].in.quantity

C1_Witness ==
    \E i, j \in Reqs :
        /\ TwoAddsInSequence(i, j)
        /\ reqs[i].in.quantity # reqs[j].in.quantity

\* The DELETE of the checkout of request i is the step being taken.
CheckoutStep(i) ==
    reqs[i].op = "checkout" /\ reqs[i].pc = "delete" /\ reqs'[i].pc = "done"

\* C2: the checkout of user u removes every cart row whose user_id is u, leaves
\* every cart row of any other user as it is, adds none, and leaves the users,
\* plants and favorites tables unchanged, whatever the store holds.
C2_CheckoutFrame ==
    [][\A i \in Reqs :
         CheckoutStep(i) =>
            /\ \A r \in cart' : r.user_id # reqs[i].in.user_id
            /\ \A r \in cart : r.user_id # reqs[i].in.user_id => r \in cart'
            /\ cart' \subseteq cart
            /\ users' = users /\ plants' = plants /\ favorites' = favorites
            /\ reqs'[i].status = 200]_vars

C2_Witness ==
    \E i \in Reqs :
        /\ Done(i) /\ reqs[i].op = "checkout" /\ reqs[i].status = 200
        /\ reqs[i].affected > 0
        /\ \E r \in cart : r.user_id # reqs[i].in.user_id
        /\ favorites # {} /\ users # {} /\ plants # {}

\* The case of C3: two POST /api/favorites for one pair, in sequence, the first
\* of which found no such relation and stored it.
TwoFavoritesInSequence(i, j) ==
    /\ RanInSequence(i, j)
    /\ reqs[i].op = "addFavorite" /\ reqs[j].op = "addFavorite"
    /\ SamePair(i, j)
    /\ reqs[i].status = 200

\* C3: adding the same favorite twice, starting with no such relation, leaves
\* exactly one stored (user_id, plant_id) relation, and the second attempt is
\* answered with HTTP 400.
C3_SecondFavoriteRejected ==
    \A i \in Reqs : \A j \in Reqs \cap {i + 1} :
        TwoFavoritesInSequence(i, j) =>
            /\ reqs[j].status = 400
            /\ Cardinality({r \in favorites :
                    r.user_id = reqs[i].in.user_id
                        /\ r.plant_id = reqs[i].in.plant_id}) = 1

C3_Witness == \E i, j \in Reqs : TwoFavoritesInSequence(i, j)

\* C4: a signup whose email is in users when it arrives takes no step that
\* changes users and, when answered, is answered with HTTP 400; no step of any
\* request removes or changes a user row.  Other requests, signups for the same
\* email among them, may be in flight.
C4_SignupUsedEmail ==
    [][/\ users \subseteq users'
       /\ \A i \in Reqs :
            (reqs'[i] # reqs[i] /\ reqs'[i].op = "signup" /\ reqs'[i].present) =>
                /\ users' = users
                /\ reqs'[i].pc \notin {"hash", "insert"}
                /\ reqs'[i].pc = "done" => reqs'[i].status = 400]_vars

C4_Witness ==
    \E i, j \in Reqs :
        /\ i # j
        /\ reqs[i].op = "signup" /\ Done(i) /\ reqs[i].present
        /\ reqs[i].status = 400 /\ reqs[i].message = "Email already registered"
        /\ reqs[j].op = "signup" /\ reqs[j].pc = "select"
        /\ reqs[j].in.email = reqs[i].in.email
        /\ reqs[j].in.full_name # reqs[i].in.full_name

\* A uniqueness that concurrent add-cart requests break.
\* C5: the cart table holds at most one row per (user_id, plant_id) in every
\* reachable state, under any interleaving of add-cart, remove-cart-item and
\* checkout requests.
C5_CartPairUnique ==
    \A r1, r2 \in cart :
        (r1.user_id = r2.user_id /\ r1.plant_id = r2.plant_id) => r1 = r2

\* A uniqueness that concurrent add-favorite requests break.
\* C6: the favorites table holds at most one row per (user_id, plant_id) in
\* every reachable state, under any interleaving of add-favorite and
\* remove-favorite requests.
C6_FavoritePairUnique ==
    \A r1, r2 \in favorites :
        (r1.user_id = r2.user_id /\ r1.plant_id = r2.plant_id) => r1 = r2

\* A login that passed validation and was refused: for an email no row has,
\* or for a password that does not match the row's hash.
RefusedUnknownEmail(i) ==
    reqs[i].op = "login" /\ Done(i) /\ ~reqs[i].found
        /\ reqs[i].in.email # "" /\ reqs[i].in.password # ""

RefusedWrongPassword(i) ==
    reqs[i].op = "login" /\ Done(i) /\ reqs[i].found
        /\ reqs[i].rowPassword # Hash(reqs[i].in.password)

\* C7: a login with a registered email and a wrong password and a login with
\* an unknown email get the same HTTP status and the same message, whatever
\* the users table holds.
C7_LoginRefusalsAlike ==
    \A i, j \in Reqs :
        (RefusedUnknownEmail(i) /\ RefusedWrongPassword(j)) =>
            /\ reqs[i].status = reqs[j].status
            /\ reqs[i].message = reqs[j].message
            /\ reqs[i].status = 400

C7_Witness ==
    \E i, j \in Reqs : RefusedUnknownEmail(i) /\ RefusedWrongPassword(j)

\* The DELETE of request i, of handler op, is the step being taken.
DeleteStep(i, op) ==
    reqs[i].op = op /\ reqs[i].pc = "delete" /\ reqs'[i].pc = "done"

\* C8: a DELETE /api/favorites or a DELETE /api/cart/:cartId that matches no
\* row is answered with success and leaves every table unchanged; and after
\* any such delete no matching row is left, so that a repeated delete is one
\* that matches no row.
C8_DeleteIdempotent ==
    [][\A i \in Reqs :
         /\ DeleteStep(i, "removeFavorite") =>
              /\ reqs'[i].status = 200
              /\ ~(\E r \in favorites' : r.user_id = reqs[i].in.user_id
                                          /\ r.plant_id = reqs[i].in.plant_id)
              /\ ~(\E r \in favorites : r.user_id = reqs[i].in.user_id
                                         /\ r.plant_id = reqs[i].in.plant_id)
                    => UNCHANGED tables
         /\ DeleteStep(i, "removeCart") =>
              /\ reqs'[i].status = 200
              /\ ~(\E r \in cart' : r.id = reqs[i].in.cartId)
              /\ ~(\E r \in cart : r.id = reqs[i].in.cartId) => UNCHANGED tables]_vars

C8_Witness ==
    \E i, j \in Reqs :
        /\ reqs[i].op = "removeFavorite" /\ Done(i) /\ reqs[i].status = 200
        /\ reqs[i].affected = 0 /\ reqs[i].in.user_id # 0 /\ reqs[i].in.plant_id # 0
        /\ reqs[j].op = "removeCart" /\ Done(j) /\ reqs[j].status = 200
        /\ reqs[j].affected = 0
        /\ cart # {} /\ favorites # {}

\* The cart row the filled store starts with, and the quantities the requests
\* before k supplied.
SeedCartRow == CHOOSE r \in FilledStore.cart : TRUE

RECURSIVE SuppliedUpTo(_)
SuppliedUpTo(k) == IF k = 0 THEN 0 ELSE reqs[k].in.quantity + SuppliedUpTo(k - 1)

\* An increment that concurrent add-cart requests of revision 1 lose.
\* C9: when a cart row for (user_id, plant_id) exists with quantity q0 and n
\* add-cart requests for the pair with quantities q1..qn have all been answered
\* with success, with no delete in between, the row's quantity is
\* q0 + q1 + ... + qn.
C9_NoLostIncrement ==
    (\A i \in Reqs :
        /\ reqs[i].op = "addCart" /\ Done(i) /\ reqs[i].message = "Cart updated"
        /\ reqs[i].in.quantity > 0
        /\ reqs[i].rowId = SeedCartRow.id)
    => \A r \in cart :
          r.id = SeedCartRow.id =>
             r.quantity = SeedCartRow.quantity + SuppliedUpTo(MaxReqs)

\* A positivity that the validation of add-cart does not enforce.
\* C10: every cart row's quantity is a positive integer in every reachable
\* state: no add-cart request that passes the handler's validation creates a
\* row with, or updates a row to, a quantity that is zero or negative.
C10_QuantityPositive == \A r \in cart : r.quantity > 0

=============================================================================
